---- MODULE Spec2Model ----
(***************************************************************************)
(* Model of the aws-transcribe-app command line tool (src/src/cli.py).     *)
(*                                                                         *)
(* Strings that the program slices (paths, object keys, job names) are     *)
(* sequences of one-character strings, so that pathlib / os.path           *)
(* operations are computed and not assumed.                                *)
(*                                                                         *)
(* Three specifications:                                                   *)
(*   Spec          one run of the `upload` or `fetch` command              *)
(*   SpecProgress  the ProgressPercentage sink called by worker threads    *)
(*   SpecJobName   construct_job_name called at successive clock readings  *)
(***************************************************************************)
EXTENDS Integers, Sequences, FiniteSets

VARIABLES
    \* ---- one command run (upload / fetch) ----
    cmd,          \* "upload" | "fetch"
    wait,         \* --wait flag
    envRegion,    \* AWS_REGION present in the environment
    envBucket,    \* AWS_BUCKET_NAME present in the environment
    envOutDir,    \* DEFAULT_OUTPUT_DIR, << >> when unset
    input_file,   \* --input-file
    custom_key,   \* --key, << >> when not given
    output_arg,   \* --output-file, << >> when not given
    object_key,   \* local of upload()
    job_name,     \* --job-name of fetch, or the name built by upload
    pc,           \* position of the command
    calls,        \* log of the backend calls made so far
    sleeps,       \* durations of the time.sleep calls made so far
    response,     \* last response held by the command
    waitResult,   \* how wait_for_transcription ended
    raised,       \* message of the exception that ended the command, << >> if none
    term,         \* what click.echo printed
    dirs,         \* existing directories
    files,        \* files written by the command
    \* ---- ProgressPercentage ----
    size,         \* self._size
    seen_so_far,  \* self._seen_so_far
    lock,         \* self._lock: 0 when free, else the holding thread
    progress_bar, \* self._progress_bar: [created, pos]
    finishes,     \* number of self._progress_bar.finish() calls
    tpc,          \* per worker thread: position inside __call__
    amt,          \* per worker thread: bytes_amount of its current call
    tmp,          \* per worker thread: value read by `+=` before it stores
    part,         \* per worker thread: bytes of the file it transfers
    position,     \* per worker thread: bytes of its part reported so far
    completed,    \* sum of the amounts of the callbacks that left the lock
    ncalls,       \* callbacks started
    peak,         \* largest value seen_so_far has had
    \* ---- construct_job_name ----
    clock,        \* time.time() in ticks of 1/TicksPerSecond second
    jn_key,       \* object key handed to construct_job_name
    jn_calls      \* results: sequence of [at, sec, name]

cliVars == <<cmd, wait, envRegion, envBucket, envOutDir, input_file, custom_key,
             output_arg, object_key, job_name, pc, calls, sleeps, response,
             waitResult, raised, term, dirs, files>>
cliInputs == <<cmd, wait, envRegion, envBucket, envOutDir, input_file, custom_key,
               output_arg>>
progVars == <<size, part, seen_so_far, lock, progress_bar, finishes, tpc, amt, tmp,
              position, completed, ncalls, peak>>
jnVars == <<clock, jn_key, jn_calls>>
vars == <<cliVars, progVars, jnVars>>

----------------------------------------------------------------------------
(* Bounds *)

MaxPolls == 3
MaxKeyLen == 3
MaxTicks == 5
MaxSize == 3
MaxCallbacks == 4
NumWorkers == 2
MaxNameCalls == 2

(* Program constants *)

SleepSeconds == 5
TicksPerSecond == 2
ClockStart == 17

----------------------------------------------------------------------------
(* Strings *)

Last(s) == s[Len(s)]

\* str.rfind(c), 1-based, 0 when absent
RFind(s, c) ==
    LET I == {i \in 1..Len(s) : s[i] = c}
    IN  IF I = {} THEN 0 ELSE CHOOSE i \in I : \A j \in I : j <= i

Alnum == {"a", "b", "c", "d", "j", "r", "t", "w", "m", "o", "n", "x",
          "0", "1", "2", "3", "4", "5", "6", "7", "8", "9"}

isalnum(c) == c \in Alnum

Digit(d) == CASE d = 0 -> "0" [] d = 1 -> "1" [] d = 2 -> "2" [] d = 3 -> "3"
              [] d = 4 -> "4" [] d = 5 -> "5" [] d = 6 -> "6" [] d = 7 -> "7"
              [] d = 8 -> "8" [] d = 9 -> "9"

RECURSIVE IntToStr(_)
\* str(n) for n >= 0: decimal digits, no leading zero
IntToStr(n) == IF n < 10 THEN <<Digit(n)>>
               ELSE Append(IntToStr(n \div 10), Digit(n % 10))

----------------------------------------------------------------------------
(* pathlib.PurePosixPath *)

\* the components of p: maximal runs without "/", empty and "." runs dropped
PathParts(p) ==
    {r \in (1..Len(p)) \X (1..Len(p)) :
        /\ r[1] <= r[2]
        /\ \A i \in r[1]..r[2] : p[i] # "/"
        /\ r[1] = 1 \/ p[r[1] - 1] = "/"
        /\ r[2] = Len(p) \/ p[r[2] + 1] = "/"
        /\ SubSeq(p, r[1], r[2]) # <<".">>}

PathName(p) ==
    LET R == PathParts(p)
    IN  IF R = {} THEN << >>
        ELSE LET r == CHOOSE x \in R : \A y \in R : y[1] <= x[1]
             IN  SubSeq(p, r[1], r[2])

\* Path(p).suffix: from the last dot of the name, unless that dot is the
\* first or the last character of the name
PathSuffix(p) ==
    LET name == PathName(p)
        i == RFind(name, ".")
    IN  IF 1 < i /\ i < Len(name) THEN SubSeq(name, i, Len(name)) ELSE << >>

PathStem(p) ==
    LET name == PathName(p)
        i == RFind(name, ".")
    IN  IF 1 < i /\ i < Len(name) THEN SubSeq(name, 1, i - 1) ELSE name

----------------------------------------------------------------------------
(* os.path (posixpath) *)

RECURSIVE RStripSlash(_)
RStripSlash(s) == IF s # << >> /\ Last(s) = "/"
                  THEN RStripSlash(SubSeq(s, 1, Len(s) - 1)) ELSE s

dirname(p) ==
    LET i == RFind(p, "/")
        head == SubSeq(p, 1, i)
    IN  IF head # << >> /\ (\E k \in 1..Len(head) : head[k] # "/")
        THEN RStripSlash(head) ELSE head

basename(p) == SubSeq(p, RFind(p, "/") + 1, Len(p))

\* os.path.splitext(p)[0]
splitext_root(p) ==
    LET sepIndex == RFind(p, "/")
        dotIndex == RFind(p, ".")
    IN  IF /\ dotIndex > sepIndex
           /\ \E k \in (sepIndex + 1)..(dotIndex - 1) : p[k] # "."
        THEN SubSeq(p, 1, dotIndex - 1) ELSE p

join(a, b) ==
    IF b # << >> /\ b[1] = "/" THEN b
    ELSE IF a = << >> \/ Last(a) = "/" THEN a \o b
    ELSE a \o <<"/">> \o b

DotTxt == <<".", "t", "x", "t">>

----------------------------------------------------------------------------
(* Naming helpers of cli.py *)

construct_output_path(output_path, isdir) ==
    IF output_path \in isdir
    THEN join(output_path, <<"t", "r", "a", "n", "s", "c", "r", "i", "b", "e", "d",
                             "_", "o", "u", "t", "p", "u", "t">> \o DotTxt)
    ELSE output_path

construct_object_key(inp, key) ==
    IF key = << >> THEN PathName(inp)
    ELSE IF PathSuffix(key) = << >> /\ PathSuffix(inp) # << >>
         THEN key \o PathSuffix(inp)
         ELSE key

\* ''.join(c if c.isalnum() else '-' for c in base_name)
clean_name(base_name) ==
    [i \in 1..Len(base_name) |-> IF isalnum(base_name[i]) THEN base_name[i] ELSE "-"]

\* int(time.time()) for a clock reading in ticks
WholeSeconds(ticks) == ticks \div TicksPerSecond

TimestampMinuteResolution(ticks) == IntToStr(ticks \div (TicksPerSecond * 60))
Timestamp(ticks) == IntToStr(WholeSeconds(ticks))

construct_job_name(key, ticks) ==
    clean_name(PathStem(key)) \o <<"-">> \o Timestamp(ticks)

\* os.getenv('DEFAULT_OUTPUT_DIR', './transcripts')
get_default_output_dir(env) ==
    IF env = << >> THEN <<".", "/", "t">> ELSE env

----------------------------------------------------------------------------
(* Values exchanged with the backends and the terminal *)

BucketName == "bkt"
Statuses == {"QUEUED", "IN_PROGRESS", "COMPLETED", "FAILED", "ERROR"}

\* get_transcription_job responses: FailureReason may be absent, a
\* TranscriptFileUri comes with COMPLETED
Responses ==
    {r \in [status : Statuses, hasReason : BOOLEAN,
            reason : {"", "Bad audio"}, uri : {"", "u1", "u2"}] :
        /\ r.hasReason <=> r.reason # ""
        /\ r.hasReason => r.status \in {"FAILED", "ERROR"}
        /\ r.uri # "" <=> r.status = "COMPLETED"}

NoResponse == [status |-> "NONE", hasReason |-> FALSE, reason |-> "", uri |-> ""]

\* result manifests: the fragments under results.transcripts
Manifests == {<<"hello", "world">>, <<"hi">>}

Call(op, ok, key, job, resp) ==
    [op |-> op, ok |-> ok, bucket |-> BucketName, key |-> key, job |-> job,
     resp |-> resp]

Msg(err, text, arg) == [err |-> err, text |-> text, arg |-> arg]

NoException == [type |-> "none", msg |-> << >>]
Exc(type, msg) == [type |-> type, msg |-> msg]
BackendError(op) == Exc("Exception", <<op, " failed">>)

StatusIsCompleted(status) == status = "COMPLETED"

StatusIsFailed(status) == status \in {"FAILED", "ERROR"}

FailureMessageWithoutReason(r) ==
    <<"Transcription job failed: ", "Unknown error">>
\* f"Transcription job failed: {....get('FailureReason', 'Unknown error')}"
FailureMessage(r) ==
    <<"Transcription job failed: ", IF r.hasReason THEN r.reason ELSE "Unknown error">>

\* the handlers at the end of upload() and fetch()
upload_except(exc) ==
    IF exc.type = "ValueError"
    THEN Msg(TRUE, <<"\nConfiguration error: ">> \o exc.msg, << >>)
    ELSE Msg(TRUE, <<"\nError: ">> \o exc.msg, << >>)

fetch_except(exc) == Msg(TRUE, <<"Error: ">> \o exc.msg, << >>)

Except(exc) == IF cmd = "upload" THEN upload_except(exc) ELSE fetch_except(exc)

init_clients_never_raises(region) == FALSE
\* init_clients raises ValueError when AWS_REGION is not set
init_clients_raises(region) == ~region

get_bucket_name_raises(bucket) == ~bucket

RegionError == Exc("ValueError", <<"AWS_REGION must be set in .env file">>)
BucketError == Exc("ValueError", <<"AWS_BUCKET_NAME must be set in .env file">>)

RECURSIVE text_output(_)
\* text_output += transcript['transcript'] + "\n"
text_output(fragments) ==
    IF fragments = << >> THEN << >>
    ELSE <<fragments[1], "\n">> \o text_output(Tail(fragments))

\* open(filepath, 'w') succeeds when the parent directory exists and the
\* path is no directory
CanWrite(filepath, d) ==
    /\ filepath \notin d
    /\ dirname(filepath) = << >> \/ dirname(filepath) \in d

WriteFile(fs, filepath, text) ==
    {f \in fs : f.path # filepath} \cup {[path |-> filepath, content |-> text]}

Polls == SelectSeq(calls, LAMBDA c : c.op = "get_transcription_job")

----------------------------------------------------------------------------
(* One run of a command *)

InitialDirs == {<<"o">>}
InputFiles == {<<"a", ".", "w">>, <<"d", "/", "b">>}
CustomKeys == {<< >>, <<"c">>, <<"c", ".", "m">>}
FetchJobNames == {<<"j", "-", "1">>, <<"j", ".", "1">>}
OutputArgs == {<< >>, <<"o">>, <<"o", "/", "r", ".", "m">>, <<"r", ".", "t">>,
               <<"o", "/", "r">>, <<"n", "/", "r", ".", "t">>}
OutDirs == {<< >>, <<"t">>}

CliInit ==
    /\ cmd \in {"upload", "fetch"}
    /\ wait \in BOOLEAN
    /\ envRegion \in BOOLEAN
    /\ envOutDir \in OutDirs
    /\ IF cmd = "upload"
       THEN /\ envBucket \in BOOLEAN
            /\ input_file \in InputFiles
            /\ custom_key \in CustomKeys
            /\ output_arg = << >>
            /\ job_name = << >>
       ELSE /\ envBucket = TRUE
            /\ input_file = << >>
            /\ custom_key = << >>
            /\ output_arg \in OutputArgs
            /\ job_name \in FetchJobNames
    /\ object_key = << >>
    /\ pc = "init"
    /\ calls = << >>
    /\ sleeps = << >>
    /\ response = NoResponse
    /\ waitResult = "none"
    /\ raised = NoException
    /\ term = << >>
    /\ dirs = InitialDirs
    /\ files = {}

\* upload(), lines 159-165
UploadConfigure ==
    /\ cmd = "upload" /\ pc = "init"
    /\ IF get_bucket_name_raises(envBucket)
       THEN /\ raised' = BucketError
            /\ term' = Append(term, Except(BucketError))
            /\ pc' = "done"
            /\ UNCHANGED object_key
       ELSE /\ object_key' = construct_object_key(input_file, custom_key)
            /\ IF init_clients_raises(envRegion)
               THEN /\ raised' = RegionError
                    /\ term' = Append(term, Except(RegionError))
                    /\ pc' = "done"
               ELSE /\ term' = Append(term, Msg(FALSE, <<"Starting upload...">>, << >>))
                    /\ pc' = "upload"
                    /\ UNCHANGED raised
    /\ UNCHANGED <<progVars, jnVars, cliInputs,
                   job_name, calls, sleeps, response, waitResult,
                   dirs, files>>

UploadFileIgnoringFailure ==
    /\ cmd = "upload" /\ pc = "upload"
    /\ \E ok \in BOOLEAN :
        /\ calls' = Append(calls, Call("upload_file", ok, object_key, << >>, NoResponse))
        /\ term' = term \o <<Msg(FALSE, <<"\nSuccessfully uploaded ">>, object_key),
                             Msg(FALSE, <<"\nStarting transcription job...">>, << >>)>>
        /\ pc' = "startjob"
        /\ UNCHANGED raised
    /\ UNCHANGED <<progVars, jnVars, cliInputs,
                   object_key, job_name, sleeps, response, waitResult,
                   dirs, files>>
\* upload(), lines 166-175: s3_client.upload_file
UploadFile ==
    /\ cmd = "upload" /\ pc = "upload"
    /\ \E ok \in BOOLEAN :
        /\ calls' = Append(calls, Call("upload_file", ok, object_key, << >>, NoResponse))
        /\ IF ok
           THEN /\ term' = term \o
                       <<Msg(FALSE, <<"\nSuccessfully uploaded ">>, object_key),
                         Msg(FALSE, <<"\nStarting transcription job...">>, << >>)>>
                /\ pc' = "startjob"
                /\ UNCHANGED raised
           ELSE /\ raised' = BackendError("upload_file")
                /\ term' = Append(term, Except(BackendError("upload_file")))
                /\ pc' = "done"
    /\ UNCHANGED <<progVars, jnVars, cliInputs,
                   object_key, job_name, sleeps, response, waitResult,
                   dirs, files>>

\* start_transcription_job (lines 95-110) and upload(), lines 176-190
StartJob ==
    /\ cmd = "upload" /\ pc = "startjob"
    /\ LET name == construct_job_name(object_key, clock) IN
       \E ok \in BOOLEAN :
        /\ calls' = Append(calls, Call("start_transcription_job", ok, object_key, name, NoResponse))
        /\ IF ~ok
           THEN /\ raised' = BackendError("start_transcription_job")
                /\ term' = Append(term, Except(BackendError("start_transcription_job")))
                /\ pc' = "done"
                /\ UNCHANGED job_name
           ELSE /\ job_name' = name
                /\ UNCHANGED raised
                /\ IF wait
                   THEN /\ term' = Append(term,
                               Msg(FALSE, <<"\nWaiting for transcription to complete...">>, << >>))
                        /\ pc' = "poll"
                   ELSE /\ term' = term \o
                               <<Msg(FALSE, <<"Transcription job started with name: ">>, name),
                                 Msg(FALSE, <<"Check progress with: python src/cli.py fetch --job-name ">>, name)>>
                        /\ pc' = "done"
    /\ UNCHANGED <<progVars, jnVars, cliInputs,
                   object_key, sleeps, response, waitResult, dirs, files>>

\* wait_for_transcription, lines 122-130: one poll and what it leads to
WaitPoll ==
    /\ pc = "poll"
    /\ Len(Polls) < MaxPolls
    /\ \E ok \in BOOLEAN, r \in Responses :
        /\ ~ok => r = CHOOSE x \in Responses : TRUE
        /\ calls' = Append(calls, Call("get_transcription_job", ok, << >>, job_name,
                                       IF ok THEN r ELSE NoResponse))
        /\ IF ~ok
           THEN /\ raised' = BackendError("get_transcription_job")
                /\ term' = Append(term, Except(BackendError("get_transcription_job")))
                /\ waitResult' = "backend_failed"
                /\ pc' = "done"
                /\ UNCHANGED response
           ELSE IF StatusIsCompleted(r.status)
           THEN /\ response' = r
                /\ waitResult' = "returned"
                /\ pc' = "waited"
                /\ UNCHANGED <<raised, term>>
           ELSE IF StatusIsFailed(r.status)
           THEN /\ raised' = Exc("Exception", FailureMessage(r))
                /\ term' = Append(term, Except(Exc("Exception", FailureMessage(r))))
                /\ waitResult' = "job_failed"
                /\ pc' = "done"
                /\ UNCHANGED response
           ELSE /\ term' = Append(term, Msg(FALSE, <<"Current status: ", r.status,
                                                    "... (Press Ctrl+C to stop checking)">>, << >>))
                /\ pc' = "sleep"
                /\ UNCHANGED <<raised, response, waitResult>>
    /\ UNCHANGED <<progVars, jnVars, cliInputs,
                   object_key, job_name, sleeps, dirs, files>>

WaitSleepNoDelay ==
    /\ pc = "sleep"
    /\ pc' = "poll"
    /\ UNCHANGED <<progVars, jnVars, cliInputs,
                   object_key, job_name, calls, sleeps, response, waitResult,
                   raised, term, dirs, files>>
\* wait_for_transcription, line 131
WaitSleep ==
    /\ pc = "sleep"
    /\ sleeps' = Append(sleeps, SleepSeconds)
    /\ pc' = "poll"
    /\ UNCHANGED <<progVars, jnVars, cliInputs,
                   object_key, job_name, calls, response, waitResult,
                   raised, term, dirs, files>>

\* KeyboardInterrupt while wait_for_transcription runs: upload() lines
\* 185-187, fetch() lines 210-212
Interrupt ==
    /\ pc \in {"poll", "sleep"}
    /\ waitResult' = "interrupted"
    /\ term' = IF cmd = "upload"
               THEN term \o
                    <<Msg(FALSE, <<"\nStopped waiting for completion. You can check the status later with:">>, << >>),
                      Msg(FALSE, <<"python src/cli.py fetch --job-name ">>, job_name)>>
               ELSE Append(term, Msg(FALSE, <<"\nStopped waiting. You can check again later.">>, << >>))
    /\ pc' = "done"
    /\ UNCHANGED <<progVars, jnVars, cliInputs,
                   object_key, job_name, calls, sleeps, response,
                   raised, dirs, files>>

\* download_json_from_url + save_transcript (lines 133-145) writing
\* join(output_dir, name); `echo` builds the message from the returned path
\* upload(), lines 182-184
UploadSave ==
    /\ cmd = "upload" /\ pc = "waited"
    /\ LET output_dir == get_default_output_dir(envOutDir)
           output_file == join(output_dir, job_name)
           made == dirs \cup {output_dir}
       IN
       \E ok \in BOOLEAN, manifest \in Manifests :
        /\ dirs' = made
        /\ calls' = Append(calls, Call("download", ok, << >>, job_name, NoResponse))
        /\ IF ~ok
           THEN /\ raised' = BackendError("download")
                /\ term' = Append(term, Except(BackendError("download")))
                /\ UNCHANGED files
           ELSE IF ~CanWrite(output_file, made)
           THEN /\ raised' = Exc("Exception", <<"open failed">>)
                /\ term' = Append(term, Except(Exc("Exception", <<"open failed">>)))
                /\ UNCHANGED files
           ELSE /\ files' = WriteFile(files, output_file, text_output(manifest))
                /\ term' = Append(term,
                       Msg(FALSE, <<"\nTranscription completed! Saved to: ">>, output_file))
                /\ UNCHANGED raised
        /\ pc' = "done"
    /\ UNCHANGED <<progVars, jnVars, cliInputs,
                   object_key, job_name, sleeps, response, waitResult>>

\* fetch(), lines 204-207
FetchConfigure ==
    /\ cmd = "fetch" /\ pc = "init"
    /\ IF init_clients_raises(envRegion)
       THEN /\ raised' = RegionError
            /\ term' = Append(term, Except(RegionError))
            /\ pc' = "done"
       ELSE /\ UNCHANGED raised
            /\ IF wait
               THEN /\ term' = Append(term,
                           Msg(FALSE, <<"Waiting for transcription to complete...">>, << >>))
                    /\ pc' = "poll"
               ELSE /\ pc' = "query"
                    /\ UNCHANGED term
    /\ UNCHANGED <<progVars, jnVars, cliInputs,
                   object_key, job_name, calls, sleeps, response,
                   waitResult, dirs, files>>

\* fetch(), line 214: the single status query of the mode without --wait
FetchQuery ==
    /\ cmd = "fetch" /\ pc = "query"
    /\ \E ok \in BOOLEAN, r \in Responses :
        /\ ~ok => r = CHOOSE x \in Responses : TRUE
        /\ calls' = Append(calls, Call("get_transcription_job", ok, << >>, job_name,
                                       IF ok THEN r ELSE NoResponse))
        /\ IF ok
           THEN /\ response' = r
                /\ pc' = "waited"
                /\ UNCHANGED <<raised, term>>
           ELSE /\ raised' = BackendError("get_transcription_job")
                /\ term' = Append(term, Except(BackendError("get_transcription_job")))
                /\ pc' = "done"
                /\ UNCHANGED response
    /\ UNCHANGED <<progVars, jnVars, cliInputs,
                   object_key, job_name, sleeps, waitResult, dirs, files>>

FetchSavesAnyStatus(status) == TRUE
\* fetch(), line 219
FetchSaves(status) == status = "COMPLETED"

\* fetch(), lines 222-227
fetch_output_path(arg, env, name, isdir) ==
    IF arg # << >> THEN construct_output_path(arg, isdir)
    ELSE join(get_default_output_dir(env), name \o DotTxt)

\* fetch(), lines 216-230
FetchReport ==
    /\ cmd = "fetch" /\ pc = "waited"
    /\ LET status_msg == Msg(FALSE, <<"\nJob Status: ", response.status>>, << >>)
           made == IF output_arg # << >> THEN dirs
                   ELSE dirs \cup {get_default_output_dir(envOutDir)}
           output_path == fetch_output_path(output_arg, envOutDir, job_name, dirs)
           output_file == join(dirname(output_path),
                               splitext_root(basename(output_path)))
       IN
       IF ~FetchSaves(response.status)
       THEN /\ term' = Append(term, status_msg)
            /\ UNCHANGED <<calls, raised, dirs, files>>
       ELSE \E ok \in BOOLEAN, manifest \in Manifests :
            /\ dirs' = made
            /\ calls' = Append(calls, Call("download", ok, << >>, job_name, NoResponse))
            /\ IF ~ok
               THEN /\ raised' = BackendError("download")
                    /\ term' = term \o <<status_msg, Except(BackendError("download"))>>
                    /\ UNCHANGED files
               ELSE IF ~CanWrite(output_file, made)
               THEN /\ raised' = Exc("Exception", <<"open failed">>)
                    /\ term' = term \o <<status_msg,
                                         Except(Exc("Exception", <<"open failed">>))>>
                    /\ UNCHANGED files
               ELSE /\ files' = WriteFile(files, output_file, text_output(manifest))
                    /\ term' = term \o <<status_msg,
                           Msg(FALSE, <<"Transcription saved to: ">>, output_file \o DotTxt)>>
                    /\ UNCHANGED raised
    /\ pc' = "done"
    /\ UNCHANGED <<progVars, jnVars, cliInputs,
                   object_key, job_name, sleeps, response, waitResult>>

ProgIdle ==
    /\ size = 1 /\ part = [t \in 1..NumWorkers |-> IF t = 1 THEN 1 ELSE 0]
    /\ seen_so_far = 0 /\ lock = 0
    /\ progress_bar = [created |-> FALSE, pos |-> 0]
    /\ finishes = 0
    /\ tpc = [t \in 1..NumWorkers |-> "idle"]
    /\ amt = [t \in 1..NumWorkers |-> 0]
    /\ tmp = [t \in 1..NumWorkers |-> 0]
    /\ position = [t \in 1..NumWorkers |-> 0] /\ completed = 0 /\ ncalls = 0 /\ peak = 0

JnIdle == jn_key = << >> /\ jn_calls = << >>

Init == CliInit /\ ProgIdle /\ JnIdle /\ clock = ClockStart

Next ==
    \/ UploadConfigure
    \/ UploadFile
    \/ StartJob
    \/ WaitPoll
    \/ WaitSleep
    \/ Interrupt
    \/ UploadSave
    \/ FetchConfigure
    \/ FetchQuery
    \/ FetchReport

Spec == Init /\ [][Next]_vars

----------------------------------------------------------------------------
(* Properties of a command run *)

NonTerminal(c) == c.ok /\ c.resp.status \notin {"COMPLETED", "FAILED", "ERROR"}

\* the polls made by wait_for_transcription so far: n non-terminal statuses
\* followed by COMPLETED
NonTerminalsThenCompleted ==
    /\ wait
    /\ Polls # << >>
    /\ Last(Polls).ok /\ Last(Polls).resp.status = "COMPLETED"
    /\ \A i \in 1..(Len(Polls) - 1) : NonTerminal(Polls[i])

\* C1: when the status endpoint reports n non-terminal statuses followed by
\* COMPLETED, wait_for_transcription has slept exactly n times, 5 seconds each
\* (n+1 polls, no sleep after the COMPLETED one), has raised nothing and has
\* returned the response of the COMPLETED poll.
C1_PollsAndSleeps ==
    NonTerminalsThenCompleted =>
        /\ sleeps = [i \in 1..(Len(Polls) - 1) |-> SleepSeconds]
        /\ waitResult = "returned"
        /\ response = Last(Polls).resp
        /\ pc = "waited" => raised = NoException

\* the spec's example: [IN_PROGRESS, IN_PROGRESS, COMPLETED]
C1_Witness ==
    /\ NonTerminalsThenCompleted
    /\ Len(Polls) = 3
    /\ Polls[1].resp.status = "IN_PROGRESS" /\ Polls[2].resp.status = "IN_PROGRESS"
    /\ pc = "waited"

\* the last poll of wait_for_transcription reported FAILED or ERROR
JobReportedFailed ==
    /\ wait
    /\ Polls # << >>
    /\ Last(Polls).ok /\ Last(Polls).resp.status \in {"FAILED", "ERROR"}

\* C2: when a poll of wait_for_transcription reports FAILED or ERROR the call
\* fails at once: that poll is the last backend call, no sleep follows it, no
\* response is returned, and the failure message carries the reported
\* FailureReason, or "Unknown error" when the response has none.
C2_JobFailure ==
    JobReportedFailed =>
        /\ waitResult = "job_failed"
        /\ pc = "done"
        /\ Last(calls) = Last(Polls)
        /\ Len(sleeps) = Len(Polls) - 1
        /\ response = NoResponse
        /\ files = {}
        /\ raised.type = "Exception"
        /\ raised.msg = <<"Transcription job failed: ",
                          IF Last(Polls).resp.hasReason THEN Last(Polls).resp.reason
                          ELSE "Unknown error">>
        /\ Last(term).err /\ Last(Last(term).text) = Last(raised.msg)

C2_Witness ==
    /\ JobReportedFailed
    /\ Last(Polls).resp.reason = "Bad audio"
    /\ Last(raised.msg) = "Bad audio"

Rank(op) == CASE op = "upload_file" -> 1
              [] op = "start_transcription_job" -> 2
              [] op = "get_transcription_job" -> 3
              [] op = "download" -> 4

\* C3: in a run of upload the backend calls are upload, job start, status
\* polls, manifest download in that order; each is made only after the one
\* before it succeeded (a poll that is followed by another poll was
\* non-terminal, the download follows a COMPLETED poll), the job is started
\* for the uploaded bucket and key, upload and job start happen at most once,
\* and a failed call is the last call and is reported as an error.
C3_UploadOrder ==
    cmd = "upload" =>
        /\ \A i \in 1..Len(calls) : calls[i].op = "upload_file" <=> i = 1
        /\ \A i \in 1..Len(calls) : calls[i].op = "start_transcription_job" <=> i = 2
        /\ \A i, j \in 1..Len(calls) : i < j => Rank(calls[i].op) <= Rank(calls[j].op)
        /\ \A i \in 1..(Len(calls) - 1) : calls[i].ok
        /\ Len(calls) >= 2 =>
              /\ calls[2].bucket = calls[1].bucket
              /\ calls[2].key = calls[1].key
        /\ \A i \in 1..Len(calls) :
              calls[i].op = "get_transcription_job" =>
                 /\ wait
                 /\ i < Len(calls) /\ calls[i + 1].op = "get_transcription_job"
                       => NonTerminal(calls[i])
        /\ \A i \in 1..Len(calls) :
              calls[i].op = "download" =>
                 /\ i = Len(calls)
                 /\ i > 1 /\ calls[i - 1].op = "get_transcription_job"
                 /\ calls[i - 1].resp.status = "COMPLETED"
        /\ (calls # << >> /\ ~Last(calls).ok) =>
              /\ pc = "done"
              /\ raised # NoException
              /\ Last(term).err

C3_Witness ==
    /\ cmd = "upload"
    /\ Len(calls) = 5
    /\ calls[5].op = "download" /\ calls[5].ok
    /\ pc = "done"

ConfigMissing ==
    \/ ~envRegion
    \/ cmd = "upload" /\ ~envBucket

\* C10: when a required configuration value is absent (the region, or the
\* bucket name for upload) the command ends with the configuration failure
\* and makes no backend call.
C10_NoCallWithoutConfig ==
    ConfigMissing =>
        /\ calls = << >>
        /\ files = {}
        /\ pc \in {"init", "done"}
        /\ pc = "done" => /\ raised.type = "ValueError"
                          /\ Last(term).err

C10_Witness ==
    /\ cmd = "fetch" /\ ~envRegion /\ pc = "done"
    /\ raised = RegionError

StatusObtained == Polls # << >> /\ Last(Polls).ok
ObtainedStatus == Last(Polls).resp.status
Downloads == SelectSeq(calls, LAMBDA c : c.op = "download")

\* fetch without --wait polls once and never sleeps
FetchQueriesOnce ==
    (cmd = "fetch" /\ ~wait) =>
        /\ Len(Polls) <= 1
        /\ sleeps = << >>
        /\ (pc \in {"waited", "done"} /\ envRegion) => Len(Polls) = 1

ResolvedOutputPath ==
    IF cmd = "upload" \/ output_arg = << >>
    THEN join(get_default_output_dir(envOutDir), job_name \o DotTxt)
    ELSE IF output_arg \in InitialDirs
    THEN join(output_arg, <<"t", "r", "a", "n", "s", "c", "r", "i", "b", "e", "d",
                            "_", "o", "u", "t", "p", "u", "t", ".", "t", "x", "t">>)
    ELSE output_arg

\* C7: a transcript saved for a COMPLETED job is written at the resolved
\* output path (<default dir>/<jobName>.txt without an override,
\* <dir>/transcribed_output.txt for an existing directory, the override
\* verbatim otherwise), and the path reported to the operator is the path
\* written.
C7_WrittenAtResolvedPath ==
    (pc = "done" /\ files # {}) =>
        \A f \in files :
            /\ f.path = ResolvedOutputPath
            /\ Last(term).arg = f.path

\* C8: an interrupted wait ends the command with an informational message
\* (not an error) that names the job to resume with; nothing is raised, no
\* file is written and the interrupted poll loop makes no further call.
C8_InterruptTellsHowToResume ==
    waitResult = "interrupted" =>
        /\ pc = "done"
        /\ raised = NoException
        /\ files = {}
        /\ \A i \in 1..Len(term) : ~term[i].err
        /\ Last(term).arg = job_name
        /\ \A i \in 1..Len(calls) :
              calls[i].op \in {"upload_file", "start_transcription_job",
                               "get_transcription_job"}

----------------------------------------------------------------------------
(* ProgressPercentage: the sink the transfer manager calls from its worker  *)
(* threads during upload_file.  The file is split into parts, one worker    *)
(* per part.  A callback reports the bytes a worker just read from its      *)
(* part; when a worker rewinds its part before a retry it reports a         *)
(* negative amount, never more than it has reported.                        *)

Workers == 1..NumWorkers
Amounts == {a \in (0 - MaxSize)..MaxSize : a # 0}

RECURSIVE SumUpTo(_, _)
SumUpTo(f, n) == IF n = 0 THEN 0 ELSE f[n] + SumUpTo(f, n - 1)

\* bytes reported by all callbacks started so far
Reported == SumUpTo(position, NumWorkers)

CliIdle ==
    /\ cmd = "upload" /\ wait = FALSE /\ envRegion = TRUE /\ envBucket = TRUE
    /\ envOutDir = << >> /\ input_file = << >> /\ custom_key = << >>
    /\ output_arg = << >> /\ object_key = << >> /\ job_name = << >>
    /\ pc = "idle" /\ calls = << >> /\ sleeps = << >> /\ response = NoResponse
    /\ waitResult = "none" /\ raised = NoException /\ term = << >>
    /\ dirs = InitialDirs /\ files = {}

\* ProgressPercentage.__init__
ProgInit ==
    /\ size \in 1..MaxSize
    /\ part \in [Workers -> 0..MaxSize]
    /\ SumUpTo(part, NumWorkers) = size
    /\ seen_so_far = 0
    /\ lock = 0
    /\ progress_bar = [created |-> FALSE, pos |-> 0]
    /\ finishes = 0
    /\ tpc = [t \in Workers |-> "idle"]
    /\ amt = [t \in Workers |-> 0]
    /\ tmp = [t \in Workers |-> 0]
    /\ position = [t \in 1..NumWorkers |-> 0] /\ completed = 0 /\ ncalls = 0 /\ peak = 0

LockAlwaysAvailable(l) == TRUE
\* threading.Lock: acquired only when no thread holds it
LockAvailable(l) == l = 0

\* a worker thread enters __call__(bytes_amount)
Callback(t) ==
    /\ tpc[t] = "idle"
    /\ ncalls < MaxCallbacks
    /\ \E a \in Amounts :
        /\ position[t] + a \in 0..part[t]
        /\ amt' = [amt EXCEPT ![t] = a]
        /\ position' = [position EXCEPT ![t] = position[t] + a]
    /\ ncalls' = ncalls + 1
    /\ tpc' = [tpc EXCEPT ![t] = "acquire"]
    /\ UNCHANGED <<cliVars, jnVars, size, part, seen_so_far, lock, progress_bar, finishes,
                   tmp, completed, peak>>

\* line 25: with self._lock
Acquire(t) ==
    /\ tpc[t] = "acquire"
    /\ LockAvailable(lock)
    /\ lock' = t
    /\ tpc' = [tpc EXCEPT ![t] = "load"]
    /\ UNCHANGED <<cliVars, jnVars, size, part, seen_so_far, progress_bar, finishes, amt,
                   tmp, position, completed, ncalls, peak>>

\* line 26, first half: `+=` reads the attribute ...
Load(t) ==
    /\ tpc[t] = "load"
    /\ tmp' = [tmp EXCEPT ![t] = seen_so_far]
    /\ tpc' = [tpc EXCEPT ![t] = "store"]
    /\ UNCHANGED <<cliVars, jnVars, size, part, seen_so_far, lock, progress_bar, finishes,
                   amt, position, completed, ncalls, peak>>

\* line 26, second half: ... and stores the sum
Store(t) ==
    /\ tpc[t] = "store"
    /\ seen_so_far' = tmp[t] + amt[t]
    /\ peak' = IF seen_so_far' > peak THEN seen_so_far' ELSE peak
    /\ tpc' = [tpc EXCEPT ![t] = "bar"]
    /\ UNCHANGED <<cliVars, jnVars, size, part, lock, progress_bar, finishes, amt, tmp,
                   position, completed, ncalls>>

\* lines 27-33: create the bar on first use, advance it
UpdateBar(t) ==
    /\ tpc[t] = "bar"
    /\ progress_bar' = [created |-> TRUE, pos |-> progress_bar.pos + amt[t]]
    /\ tpc' = [tpc EXCEPT ![t] = "check"]
    /\ UNCHANGED <<cliVars, jnVars, size, part, seen_so_far, lock, finishes, amt, tmp,
                   position, completed, ncalls, peak>>

\* lines 34-35: finish the bar when all bytes are accounted for
CheckFinish(t) ==
    /\ tpc[t] = "check"
    /\ finishes' = IF seen_so_far >= size THEN finishes + 1 ELSE finishes
    /\ tpc' = [tpc EXCEPT ![t] = "release"]
    /\ UNCHANGED <<cliVars, jnVars, size, part, seen_so_far, lock, progress_bar, amt, tmp,
                   position, completed, ncalls, peak>>

\* end of the with block
Release(t) ==
    /\ tpc[t] = "release"
    /\ lock' = 0
    /\ completed' = completed + amt[t]
    /\ tpc' = [tpc EXCEPT ![t] = "idle"]
    /\ UNCHANGED <<cliVars, jnVars, size, part, seen_so_far, progress_bar, finishes, amt,
                   tmp, position, ncalls, peak>>

InitProgress == CliIdle /\ ProgInit /\ JnIdle /\ clock = ClockStart

NextProgress ==
    \/ \E t \in Workers : Callback(t)
    \/ \E t \in Workers : Acquire(t)
    \/ \E t \in Workers : Load(t)
    \/ \E t \in Workers : Store(t)
    \/ \E t \in Workers : UpdateBar(t)
    \/ \E t \in Workers : CheckFinish(t)
    \/ \E t \in Workers : Release(t)

SpecProgress == InitProgress /\ [][NextProgress]_vars

InCritical(t) == tpc[t] \in {"load", "store", "bar", "check", "release"}

\* C4: under every interleaving of the worker threads the accumulation steps
\* exclude each other and no update is lost: once every callback has
\* returned the counter is the sum of all amounts reported, and whenever no
\* thread is inside the locked block it is the sum of the amounts of the
\* callbacks that have completed it (while a thread is inside, that sum with
\* or without the thread's own amount).
C4_NoLostUpdate ==
    /\ \A t1, t2 \in Workers : (InCritical(t1) /\ InCritical(t2)) => t1 = t2
    /\ (\A t \in Workers : tpc[t] = "idle") => seen_so_far = Reported
    /\ (\A t \in Workers : ~InCritical(t)) => seen_so_far = completed
    /\ \A t \in Workers :
          InCritical(t) => seen_so_far \in {completed, completed + amt[t]}

\* two callbacks contend: one is inside the locked block after its add, the
\* other waits for the lock, and earlier callbacks have already completed
C4_Witness ==
    \E t1, t2 \in Workers :
        /\ t1 # t2
        /\ tpc[t1] = "check" /\ tpc[t2] = "acquire"
        /\ ncalls >= 3
        /\ seen_so_far = completed + amt[t1]

\* C5: the terminal signal (progress bar finish) is emitted exactly once:
\* never before the accumulated count has reached the file size, once by the
\* callback that reaches it, and never again by a later callback.
C5_FinishExactlyOnce ==
    /\ finishes <= 1
    /\ finishes > 0 => peak >= size
    /\ ((\A t \in Workers : ~InCritical(t)) /\ peak >= size) => finishes >= 1

----------------------------------------------------------------------------
(* construct_job_name at successive clock readings *)

KeyAlphabet == {"a", "1", ".", "_", "/"}

Keys == UNION {[1..n -> KeyAlphabet] : n \in 1..MaxKeyLen}

InitJobName ==
    /\ CliIdle /\ ProgIdle
    /\ clock = ClockStart
    /\ jn_key \in Keys
    /\ jn_calls = << >>

\* time passes
Tick ==
    /\ clock < ClockStart + MaxTicks
    /\ clock' = clock + 1
    /\ UNCHANGED <<cliVars, progVars, jn_key, jn_calls>>

\* one call of construct_job_name(jn_key); time.time() is read once
CallJobName ==
    /\ Len(jn_calls) < MaxNameCalls
    /\ jn_calls' = Append(jn_calls,
                          [at |-> clock, name |-> construct_job_name(jn_key, clock)])
    /\ UNCHANGED <<cliVars, progVars, clock, jn_key>>

NextJobName == Tick \/ CallJobName

SpecJobName == InitJobName /\ [][NextJobName]_vars

DigitValue(c) == CHOOSE d \in 0..9 : Digit(d) = c

RECURSIVE StrToInt(_)
\* the number a string of decimal digits denotes
StrToInt(s) == IF s = << >> THEN 0
               ELSE 10 * StrToInt(SubSeq(s, 1, Len(s) - 1)) + DigitValue(Last(s))

IsDecimal(s) ==
    /\ s # << >>
    /\ \A i \in 1..Len(s) : s[i] \in {Digit(d) : d \in 0..9}
    /\ Len(s) > 1 => s[1] # "0"

\* C9: a job name is the key's stem with every non-alphanumeric character
\* replaced by "-", then "-", then the clock reading in whole seconds; two
\* calls for the same key whose whole-second readings differ (in particular
\* calls at least one second apart) return different names.
C9_JobNamesDiffer ==
    /\ \A i \in 1..Len(jn_calls) :
          LET name == jn_calls[i].name
              stem == PathStem(jn_key)
              k == Len(stem)
          IN  /\ Len(name) >= k + 2
              /\ \A j \in 1..k :
                    name[j] = IF stem[j] \in Alnum THEN stem[j] ELSE "-"
              /\ name[k + 1] = "-"
              /\ IsDecimal(SubSeq(name, k + 2, Len(name)))
              /\ StrToInt(SubSeq(name, k + 2, Len(name)))
                    = jn_calls[i].at \div TicksPerSecond
    /\ \A i, j \in 1..Len(jn_calls) :
          (jn_calls[i].at \div TicksPerSecond # jn_calls[j].at \div TicksPerSecond)
             => jn_calls[i].name # jn_calls[j].name
    /\ \A i, j \in 1..Len(jn_calls) :
          jn_calls[j].at - jn_calls[i].at >= TicksPerSecond
             => jn_calls[i].name # jn_calls[j].name

\* two calls one second apart for a key whose stem has a character that is
\* replaced, across the change from one digit to two
C9_Witness ==
    /\ Len(jn_calls) >= 2
    /\ jn_key = <<"a", "_", ".">>
    /\ jn_calls[1].name = <<"a", "-", "-", "-", "9">>
    /\ jn_calls[2].name = <<"a", "-", "-", "-", "1", "0">>
    /\ jn_calls[2].at - jn_calls[1].at = TicksPerSecond

====
